---- MODULE Spec2Model ----
(***************************************************************************)
(* Model of src/app.py: the in-memory data store, the ConnectionManager    *)
(* (live connection list + subscription registry), the generate_data tick  *)
(* loop with broadcast_data, and the websocket_endpoint handler loop.      *)
(*                                                                         *)
(* Everything runs on one asyncio event loop, so a step of the model is    *)
(* the code that runs between two suspension points (await).               *)
(* Timestamps (time.time()) are left out of payloads; values are integers  *)
(* standing for the rounded floats.                                        *)
(***************************************************************************)
EXTENDS Integers, Sequences, FiniteSets, TLC

\* ---- bounds ----
MaxLen   == 2      \* longest "topics" list handed to the registry operations
MaxDrift == 1      \* a stock price stays within DefaultPrice +/- MaxDrift

\* ---- program constants ----
DefaultPrice == 100            \* data_store.get(key, 100)
SensorLow    == 20             \* random.uniform(20, 30)
SensorHigh   == 30

Conns == {"ws1", "ws2"}        \* the websocket objects that may connect
NoConn == "none"

StockKeys  == {"STOCK:MSFT"}   \* one of the four tickers
SensorKeys == {"SENSOR:1"}     \* one of the four sensors
OtherKeys  == {"OTHER:X"}      \* a topic no producer ever writes
Topics == StockKeys \cup SensorKeys \cup OtherKeys

VARIABLES
  data_store,          \* dict: topic -> value
  active_connections,  \* list of websockets
  subscriptions,       \* dict: websocket -> list of topics
  gen_pc,              \* generate_data: "sleep" | "send" | "dead"
  idx,                 \* list iterator of broadcast_data: elements consumed
  cur,                 \* broadcast_data's `websocket` while suspended in send_json
  data_to_send,        \* payload of the send in flight
  ws_pc,               \* per websocket_endpoint: "new" | "recv" | "reply" | "closed" | "crashed"
  reply,               \* per handler: the reply being sent
  pushed,              \* history: connections a send was started to in the current tick
  visited,             \* history: connections the for loop has yielded in the current tick
  steady,              \* history: connections live since the start of the current tick and not mutated since
  failed               \* history: connections whose broadcast send failed

vars == <<data_store, active_connections, subscriptions, gen_pc, idx, cur,
          data_to_send, ws_pc, reply, pushed, visited, steady, failed>>

\* ---- helpers ----
Range(s) == {s[i] : i \in 1..Len(s)}

NoDup(s) == \A i, j \in 1..Len(s) : s[i] = s[j] => i = j

EmptyDict == [t \in {} |-> 0]

\* list.remove(x): drops the first occurrence of x (x is known to be present)
RECURSIVE Remove(_, _)
Remove(s, x) ==
  IF s = <<>> THEN <<>>
  ELSE IF Head(s) = x THEN Tail(s)
  ELSE <<Head(s)>> \o Remove(Tail(s), x)

\* list(set(xs)): the distinct elements of xs, in an order Python does not fix
ListOfSet(xs) ==
  LET S == Range(xs)
  IN  {o \in [1..Cardinality(S) -> S] : Range(o) = S}

TopicLists == UNION {[1..n -> Topics] : n \in 0..MaxLen}

\* ---- inbound frames ----
Frame(kind, command, has_topics, topics) ==
  [kind |-> kind, command |-> command, has_topics |-> has_topics, topics |-> topics]

NoFrame      == Frame("none", "", FALSE, <<>>)
Undecodable  == Frame("undecodable", "", FALSE, <<>>)   \* json.loads raises JSONDecodeError
NonObject    == Frame("nonobject", "", FALSE, <<>>)     \* valid JSON that is not an object, e.g. [1]
\* the "topics" lists clients send while the tick loop runs
FrameLists == {<<"STOCK:MSFT">>, <<"STOCK:MSFT", "OTHER:X">>}
Frames ==
  {Undecodable, NonObject}
  \cup {Frame("object", "subscribe", TRUE, ts) : ts \in FrameLists}
  \cup {Frame("object", "subscribe", FALSE, <<>>)}
  \cup {Frame("object", "unsubscribe", TRUE, ts) : ts \in FrameLists}
  \cup {Frame("object", "unsubscribe", FALSE, <<>>)}
  \cup {Frame("object", "ping", FALSE, <<>>)}           \* some other command name
  \cup {Frame("object", "", FALSE, <<>>)}               \* no "command" key

\* ---- replies ----
Reply(status, error, topics) == [status |-> status, error |-> error, topics |-> topics]
NoReply        == Reply("", "", <<>>)
Subscribed(ts) == Reply("subscribed", "", ts)
Unsubscribed   == Reply("unsubscribed", "", <<>>)
UnknownCommand == Reply("", "Unknown command", <<>>)
InvalidJSON    == Reply("", "Invalid JSON", <<>>)

\* ---- ConnectionManager ----
\* connect variant: the websocket is listed but gets no entry
ConnectWithoutEntry(conns, subs, ws) ==
  [conns |-> Append(conns, ws), subs |-> subs]

Connect(conns, subs, ws) ==
  [conns |-> Append(conns, ws),
   subs  |-> [w \in DOMAIN subs \cup {ws} |-> IF w = ws THEN <<>> ELSE subs[w]]]

\* disconnect variants: entry kept, list membership kept, nothing removed
DisconnectKeepsEntry(conns, subs, ws) ==
  [conns |-> IF ws \in Range(conns) THEN Remove(conns, ws) ELSE conns,
   subs  |-> subs]

DisconnectKeepsLive(conns, subs, ws) ==
  [conns |-> conns,
   subs  |-> IF ws \in DOMAIN subs
             THEN [w \in DOMAIN subs \ {ws} |-> subs[w]]
             ELSE subs]

\* disconnect variant: no membership test before the list removal
DisconnectUnguarded(conns, subs, ws) ==
  [conns |-> IF ws \in Range(conns) THEN Remove(conns, ws)
             ELSE SubSeq(conns, 1, Len(conns) - 1),
   subs  |-> IF ws \in DOMAIN subs
             THEN [w \in DOMAIN subs \ {ws} |-> subs[w]]
             ELSE subs]

DisconnectRemovesNothing(conns, subs, ws) ==
  [conns |-> conns, subs |-> subs]

Disconnect(conns, subs, ws) ==
  [conns |-> IF ws \in Range(conns) THEN Remove(conns, ws) ELSE conns,
   subs  |-> IF ws \in DOMAIN subs
             THEN [w \in DOMAIN subs \ {ws} |-> subs[w]]
             ELSE subs]

\* subscribe variant: extend without the set() pass
SubscribeNoDedup(subs, ws, topics) ==
  IF ws \in DOMAIN subs
  THEN {[subs EXCEPT ![ws] = subs[ws] \o topics]}
  ELSE {subs}

\* subscribe variant: one list shared by all entries
SubscribeShared(subs, ws, topics) ==
  IF ws \in DOMAIN subs
  THEN {[w \in DOMAIN subs |-> o] : o \in ListOfSet(subs[ws] \o topics)}
  ELSE {subs}

\* subscribe variant: an unknown websocket gets an entry
SubscribeLazyRegisters(subs, ws, topics) ==
  LET old == IF ws \in DOMAIN subs THEN subs[ws] ELSE <<>>
  IN  {[w \in DOMAIN subs \cup {ws} |-> IF w = ws THEN o ELSE subs[w]] :
         o \in ListOfSet(old \o topics)}

\* the set of registries subscribe may leave (the order of list(set(..)) is open)
Subscribe(subs, ws, topics) ==
  IF ws \in DOMAIN subs
  THEN {[subs EXCEPT ![ws] = o] : o \in ListOfSet(subs[ws] \o topics)}
  ELSE {subs}

\* removal variant: only the first listed topic is removed
RemoveFirstTopicOnly(list, topics) ==
  IF topics = <<>> THEN list
  ELSE IF Head(topics) \in Range(list) THEN Remove(list, Head(topics)) ELSE list

RECURSIVE RemoveTopics(_, _)
RemoveTopics(list, topics) ==
  IF topics = <<>> THEN list
  ELSE LET t == Head(topics)
       IN  RemoveTopics(IF t \in Range(list) THEN Remove(list, t) ELSE list,
                        Tail(topics))

\* unsubscribe variant: absent topics handled like an empty list
UnsubscribeNoneAsEmpty(subs, ws, has_topics, topics) ==
  IF ws \in DOMAIN subs
  THEN [subs EXCEPT ![ws] = RemoveTopics(subs[ws], topics)]
  ELSE subs

Unsubscribe(subs, ws, has_topics, topics) ==
  IF ws \in DOMAIN subs
  THEN IF ~has_topics
       THEN [subs EXCEPT ![ws] = <<>>]
       ELSE [subs EXCEPT ![ws] = RemoveTopics(subs[ws], topics)]
  ELSE subs

\* payload variant: the build stops after the first subscribed topic
BuildPayloadFirstTopic(topics, store) ==
  [t \in {x \in Range(SubSeq(topics, 1, 1)) : x \in DOMAIN store} |-> store[t]]

\* payload variant: a topic missing from the store is sent with a null (0) value
BuildPayloadWithNulls(topics, store) ==
  [t \in Range(topics) |-> IF t \in DOMAIN store THEN store[t] ELSE 0]

\* data_to_send of one connection
BuildPayload(topics, store) ==
  [t \in {x \in Range(topics) : x \in DOMAIN store} |-> store[t]]

TopicsOf(subs, ws) == IF ws \in DOMAIN subs THEN subs[ws] ELSE <<>>

\* The for loop of broadcast_data from iterator position i up to its next
\* suspension: the position of the next connection that gets a send, 0 if the
\* loop runs to its end.
RECURSIVE NextSend(_, _, _, _)
NextSend(i, conns, subs, store) ==
  IF i >= Len(conns) THEN 0
  ELSE LET topics == TopicsOf(subs, conns[i + 1])
       IN  IF topics # <<>> /\ DOMAIN BuildPayload(topics, store) # {}
           THEN i + 1
           ELSE NextSend(i + 1, conns, subs, store)

\* ---- generate_data ----
PriceMoves(current) ==
  {p \in {current - 1, current, current + 1} :
     p >= DefaultPrice - MaxDrift /\ p <= DefaultPrice + MaxDrift}

SensorValues == {SensorLow, SensorHigh}

NewStores(store) ==
  {[t \in DOMAIN store \cup StockKeys \cup SensorKeys |->
      IF t \in StockKeys THEN price[t]
      ELSE IF t \in SensorKeys THEN sensor[t]
      ELSE store[t]] :
     price \in {f \in [StockKeys -> (DefaultPrice - MaxDrift)..(DefaultPrice + MaxDrift)] :
                  \A k \in StockKeys :
                    f[k] \in PriceMoves(IF k \in DOMAIN store THEN store[k] ELSE DefaultPrice)},
     sensor \in [SensorKeys -> SensorValues]}

\* ---- websocket_endpoint: what one inbound frame does ----
\* outcomes of the body of the while loop up to its next await (or its exit)
Outcome(subs, rep, pc) == [subs |-> subs, reply |-> rep, pc |-> pc]

\* dispatch variant: JSONDecodeError is not caught
DispatchUncaught(subs, ws, f) ==
  IF f.kind \in {"undecodable", "nonobject"} THEN {Outcome(subs, NoReply, "crashed")}
  ELSE IF f.command = "subscribe"
       THEN LET topics == IF f.has_topics THEN f.topics ELSE <<>>
            IN  {Outcome(s, Subscribed(topics), "reply") : s \in Subscribe(subs, ws, topics)}
  ELSE IF f.command = "unsubscribe"
       THEN {Outcome(Unsubscribe(subs, ws, f.has_topics, f.topics), Unsubscribed, "reply")}
  ELSE {Outcome(subs, UnknownCommand, "reply")}

Dispatch(subs, ws, f) ==
  IF f.kind = "undecodable" THEN {Outcome(subs, InvalidJSON, "reply")}
  ELSE IF f.kind = "nonobject" THEN {Outcome(subs, NoReply, "crashed")}  \* message.get: AttributeError
  ELSE IF f.command = "subscribe"
       THEN LET topics == IF f.has_topics THEN f.topics ELSE <<>>
            IN  {Outcome(s, Subscribed(topics), "reply") : s \in Subscribe(subs, ws, topics)}
  ELSE IF f.command = "unsubscribe"
       THEN {Outcome(Unsubscribe(subs, ws, f.has_topics, f.topics), Unsubscribed, "reply")}
  ELSE {Outcome(subs, UnknownCommand, "reply")}

\* ---- initial state ----
Init ==
  /\ data_store = EmptyDict
  /\ active_connections = <<>>
  /\ subscriptions = [w \in {} |-> <<>>]
  /\ gen_pc = "sleep"
  /\ idx = 0
  /\ cur = NoConn
  /\ data_to_send = EmptyDict
  /\ ws_pc = [c \in Conns |-> "new"]
  /\ reply = [c \in Conns |-> NoReply]
  /\ pushed = {}
  /\ visited = <<>>
  /\ steady = {}
  /\ failed = {}

\* broadcast_data runs from iterator position i to its next await or its end
BroadcastFrom(i, history) ==
  LET j == NextSend(i, active_connections, subscriptions, data_store')
      last == IF j = 0 THEN Len(active_connections) ELSE j
  IN  /\ visited' = (IF i = 0 THEN <<>> ELSE visited)
                       \o SubSeq(active_connections, i + 1, last)
      /\ IF j = 0
         THEN /\ gen_pc' = "sleep"
              /\ idx' = 0
              /\ cur' = NoConn
              /\ data_to_send' = EmptyDict
              /\ pushed' = history
         ELSE LET ws == active_connections[j]
                  payload == BuildPayload(TopicsOf(subscriptions, ws), data_store')
              IN  /\ gen_pc' = "send"
                  /\ idx' = j
                  /\ cur' = ws
                  /\ data_to_send' = payload
                  /\ pushed' = history \cup {ws}

\* tick variant: the next iteration starts while a send is still awaited
GenerateTickOverlapping ==
  /\ gen_pc \in {"sleep", "send"}
  /\ \E s \in NewStores(data_store) : data_store' = s
  /\ steady' = Range(active_connections)
  /\ BroadcastFrom(0, {})
  /\ UNCHANGED <<active_connections, subscriptions, ws_pc, reply, failed>>

\* one iteration of generate_data up to the first await inside broadcast_data
GenerateTick ==
  /\ gen_pc = "sleep"
  /\ \E s \in NewStores(data_store) : data_store' = s
  /\ steady' = Range(active_connections)
  /\ BroadcastFrom(0, {})
  /\ UNCHANGED <<active_connections, subscriptions, ws_pc, reply, failed>>

\* await websocket.send_json(data_to_send) returns; the for loop goes on
SendOk ==
  /\ gen_pc = "send"
  /\ data_store' = data_store
  /\ BroadcastFrom(idx, pushed)
  /\ UNCHANGED <<active_connections, subscriptions, ws_pc, reply, steady, failed>>

\* send_json raises: the except branch calls self.disconnect(websocket), then
\* awaits its result None, which raises TypeError out of broadcast_data and
\* out of generate_data: the task ends.
SendFail ==
  /\ gen_pc = "send"
  /\ LET d == Disconnect(active_connections, subscriptions, cur)
     IN  /\ active_connections' = d.conns
         /\ subscriptions' = d.subs
  /\ failed' = failed \cup {cur}
  /\ steady' = steady \ {cur}
  /\ gen_pc' = "dead"
  /\ idx' = 0
  /\ cur' = NoConn
  /\ data_to_send' = EmptyDict
  /\ UNCHANGED <<data_store, ws_pc, reply, pushed, visited>>

\* websocket_endpoint: manager.connect after accept() returned
Accept(c) ==
  /\ ws_pc[c] = "new"
  /\ LET r == Connect(active_connections, subscriptions, c)
     IN  /\ active_connections' = r.conns
         /\ subscriptions' = r.subs
  /\ ws_pc' = [ws_pc EXCEPT ![c] = "recv"]
  /\ UNCHANGED <<data_store, gen_pc, idx, cur, data_to_send, reply,
                 pushed, visited, steady, failed>>

\* receive_text returns frame f; the handler runs to the await of its reply
Receive(c, f) ==
  /\ ws_pc[c] = "recv"
  /\ \E o \in Dispatch(subscriptions, c, f) :
       /\ subscriptions' = o.subs
       /\ reply' = [reply EXCEPT ![c] = o.reply]
       /\ ws_pc' = [ws_pc EXCEPT ![c] = o.pc]
  /\ steady' = IF f.kind = "object" /\ f.command \in {"subscribe", "unsubscribe"}
               THEN steady \ {c} ELSE steady
  /\ UNCHANGED <<data_store, active_connections, gen_pc, idx, cur, data_to_send,
                 pushed, visited, failed>>

\* receive_text raises WebSocketDisconnect
ReceiveDisconnect(c) ==
  /\ ws_pc[c] = "recv"
  /\ LET d == Disconnect(active_connections, subscriptions, c)
     IN  /\ active_connections' = d.conns
         /\ subscriptions' = d.subs
  /\ ws_pc' = [ws_pc EXCEPT ![c] = "closed"]
  /\ steady' = steady \ {c}
  /\ UNCHANGED <<data_store, gen_pc, idx, cur, data_to_send, reply,
                 pushed, visited, failed>>

\* the reply's send_json returns: back to receive_text
ReplyOk(c) ==
  /\ ws_pc[c] = "reply"
  /\ ws_pc' = [ws_pc EXCEPT ![c] = "recv"]
  /\ reply' = [reply EXCEPT ![c] = NoReply]
  /\ UNCHANGED <<data_store, active_connections, subscriptions, gen_pc, idx, cur,
                 data_to_send, pushed, visited, steady, failed>>

\* the reply's send_json raises WebSocketDisconnect
ReplyDisconnect(c) ==
  /\ ws_pc[c] = "reply"
  /\ LET d == Disconnect(active_connections, subscriptions, c)
     IN  /\ active_connections' = d.conns
         /\ subscriptions' = d.subs
  /\ ws_pc' = [ws_pc EXCEPT ![c] = "closed"]
  /\ steady' = steady \ {c}
  /\ UNCHANGED <<data_store, gen_pc, idx, cur, data_to_send, reply,
                 pushed, visited, failed>>

\* the reply's send_json raises anything else: the handler ends, nothing is undone
ReplyError(c) ==
  /\ ws_pc[c] = "reply"
  /\ ws_pc' = [ws_pc EXCEPT ![c] = "crashed"]
  /\ reply' = [reply EXCEPT ![c] = NoReply]
  /\ UNCHANGED <<data_store, active_connections, subscriptions, gen_pc, idx, cur,
                 data_to_send, pushed, visited, steady, failed>>

Next ==
  \/ GenerateTick
  \/ SendOk
  \/ SendFail
  \/ \E c \in Conns : Accept(c)
  \/ \E c \in Conns : \E f \in Frames : Receive(c, f)
  \/ \E c \in Conns : ReceiveDisconnect(c)
  \/ \E c \in Conns : ReplyOk(c)
  \/ \E c \in Conns : ReplyDisconnect(c)
  \/ \E c \in Conns : ReplyError(c)

Spec == Init /\ [][Next]_vars

TypeOK ==
  /\ DOMAIN data_store \subseteq Topics
  /\ Range(active_connections) \subseteq Conns
  /\ DOMAIN subscriptions \subseteq Conns
  /\ gen_pc \in {"sleep", "send", "dead"}
  /\ cur \in Conns \cup {NoConn}
  /\ \A c \in Conns : ws_pc[c] \in {"new", "recv", "reply", "closed", "crashed"}

\* ---- the registry operations on their own ----
\* ConnectionManager's methods called directly, with every topic list up to
\* MaxLen, on registered and unregistered websockets alike.
RegFrame ==
  UNCHANGED <<data_store, gen_pc, idx, cur, data_to_send, ws_pc, reply, pushed, visited,
              steady, failed>>

RegConnect(c) ==
  /\ c \notin Range(active_connections)
  /\ LET r == Connect(active_connections, subscriptions, c)
     IN  /\ active_connections' = r.conns
         /\ subscriptions' = r.subs
  /\ RegFrame

RegDisconnect(c) ==
  /\ LET d == Disconnect(active_connections, subscriptions, c)
     IN  /\ active_connections' = d.conns
         /\ subscriptions' = d.subs
  /\ RegFrame

RegSubscribe(c, ts) ==
  /\ subscriptions' \in Subscribe(subscriptions, c, ts)
  /\ UNCHANGED active_connections
  /\ RegFrame

RegUnsubscribe(c, has_topics, ts) ==
  /\ subscriptions' = Unsubscribe(subscriptions, c, has_topics, ts)
  /\ UNCHANGED active_connections
  /\ RegFrame

RegNext ==
  \/ \E c \in Conns : RegConnect(c)
  \/ \E c \in Conns : RegDisconnect(c)
  \/ \E c \in Conns : \E ts \in TopicLists : RegSubscribe(c, ts)
  \/ \E c \in Conns : \E ts \in TopicLists : RegUnsubscribe(c, TRUE, ts)
  \/ \E c \in Conns : RegUnsubscribe(c, FALSE, <<>>)

RegSpec == Init /\ [][RegNext]_vars

\* ---- one connection against the tick loop, with every topic list ----
SoloConns == {"ws1"}

AllFrames ==
  {Undecodable, NonObject}
  \cup {Frame("object", "subscribe", TRUE, ts) : ts \in TopicLists}
  \cup {Frame("object", "subscribe", FALSE, <<>>)}
  \cup {Frame("object", "unsubscribe", TRUE, ts) : ts \in TopicLists}
  \cup {Frame("object", "unsubscribe", FALSE, <<>>)}
  \cup {Frame("object", "ping", FALSE, <<>>)}
  \cup {Frame("object", "", FALSE, <<>>)}

SoloNext ==
  \/ GenerateTick
  \/ SendOk
  \/ SendFail
  \/ \E c \in SoloConns : Accept(c)
  \/ \E c \in SoloConns : \E f \in AllFrames : Receive(c, f)
  \/ \E c \in SoloConns : ReceiveDisconnect(c)
  \/ \E c \in SoloConns : ReplyOk(c)
  \/ \E c \in SoloConns : ReplyDisconnect(c)
  \/ \E c \in SoloConns : ReplyError(c)

SoloSpec == Init /\ [][SoloNext]_vars

\* ---- properties ----
Live == Range(active_connections)
Registered == DOMAIN subscriptions

\* connections disconnect() has been called for
Torn == failed \cup {c \in Conns : ws_pc[c] = "closed"}

\* the payload connection c would get from the current registry and store
HasData(c) == DOMAIN BuildPayload(TopicsOf(subscriptions, c), data_store) # {}

\* a step in which broadcast_data starts a send
SendStarts == gen_pc' = "send" /\ idx' # idx

\* C1: when a send fails in a tick, every other connection that was live for
\* the whole tick and has a subscribed topic in the store still gets its push
\* in that tick.
SendFailureSparesOthers ==
  (gen_pc \in {"sleep", "dead"} /\ failed # {}) =>
     \A c \in steady : HasData(c) => c \in pushed

\* C2: the tick loop is still running after a send to some connection failed.
TickLoopSurvivesFailure ==
  failed # {} => gen_pc # "dead"

\* C3: a connection whose broadcast send failed is in neither the live list
\* nor the registry, and no send to it is in flight again.
FailedSendTearsDown ==
  \A c \in failed : c \notin Live /\ c \notin Registered /\ cur # c

FailedSendWitness ==
  \E c \in failed : ws_pc[c] = "recv" /\ Live # {}

\* C4: every push that is started carries exactly the subscribed topics that
\* are in the store, with the store's values, and is never empty.
PushIsSnapshot ==
  [][SendStarts =>
       /\ cur' \in DOMAIN subscriptions'
       /\ DOMAIN data_to_send' = Range(subscriptions'[cur']) \cap DOMAIN data_store'
       /\ DOMAIN data_to_send' # {}
       /\ \A t \in DOMAIN data_to_send' : data_to_send'[t] = data_store'[t]]_vars

PushOmitsMissingTopic ==
  /\ gen_pc = "send"
  /\ cur \in Registered
  /\ \E t \in Range(subscriptions[cur]) : t \notin DOMAIN data_store
  /\ DOMAIN data_to_send = Range(subscriptions[cur]) \cap DOMAIN data_store
  /\ DOMAIN data_to_send # {}

\* C5: when a tick has completed, every connection that was registered when
\* it began, whose subscription was not touched since and has data in the
\* store, was sent its push in that tick.
ChangeSeenByNextTick ==
  gen_pc = "sleep" => \A c \in steady : HasData(c) => c \in pushed

\* C6: no send is started to a connection that has been torn down.
NoSendAfterTeardown ==
  [][SendStarts => cur' \notin Torn]_vars

SendPastTornDown ==
  /\ gen_pc = "send"
  /\ cur \notin Torn
  /\ \E c \in Torn : c # cur /\ c \notin pushed

\* C7: every decodable frame that is neither subscribe nor unsubscribe gets
\* the Unknown command reply, the handler keeps running and the registration
\* is untouched.
OtherFrames ==
  {f \in Frames : f.kind \in {"object", "nonobject"}
                  /\ f.command \notin {"subscribe", "unsubscribe"}}

OtherFrameGetsUnknownCommand ==
  [][\A c \in Conns : \A f \in OtherFrames :
       Receive(c, f) =>
         /\ reply'[c] = UnknownCommand
         /\ ws_pc'[c] = "reply"
         /\ UNCHANGED <<subscriptions, active_connections>>]_vars

\* C8: an undecodable frame gets an error reply on its own connection only,
\* the handler keeps running, and registry, live list and store are unchanged.
MalformedFrameIsRecoverable ==
  [][\A c \in Conns :
       Receive(c, Undecodable) =>
         /\ reply'[c] = InvalidJSON
         /\ ws_pc'[c] = "reply"
         /\ \A d \in Conns \ {c} : reply'[d] = reply[d] /\ ws_pc'[d] = ws_pc[d]
         /\ UNCHANGED <<subscriptions, active_connections, data_store>>]_vars

MalformedFrameWitness ==
  \E c \in Conns :
    /\ reply[c] = InvalidJSON
    /\ ws_pc[c] = "reply"
    /\ c \in Live
    /\ c \in Registered
    /\ subscriptions[c] # <<>>

\* C9: a handler that saw the transport disconnect is closed and its
\* connection is in neither the live list nor the registry; the step changes
\* nothing for the other connections.
HandlerDisconnectTearsDown ==
  /\ [](\A c \in Conns : ws_pc[c] = "closed" => c \notin Live /\ c \notin Registered)
  /\ [][\A c \in Conns :
          (ws_pc[c] # "closed" /\ ws_pc'[c] = "closed") =>
             \A d \in Conns \ {c} :
               /\ reply'[d] = reply[d]
               /\ ws_pc'[d] = ws_pc[d]
               /\ (d \in Registered) = (d \in DOMAIN subscriptions')
               /\ d \in Registered => subscriptions'[d] = subscriptions[d]]_vars

HandlerDisconnectWitness ==
  \E c, d \in Conns :
    /\ ws_pc[c] = "closed"
    /\ ws_pc[d] \in {"recv", "reply"}
    /\ d \in Live
    /\ subscriptions[d] # <<>>

\* C10: subscribe on a registered connection leaves the union of the old set
\* and the listed topics, without duplicates; doing the same subscribe again
\* leaves the same set.
SubscribeIsSetUnion ==
  \A c \in Registered : \A ts \in TopicLists :
    \A s1 \in Subscribe(subscriptions, c, ts) :
      /\ DOMAIN s1 = Registered
      /\ Range(s1[c]) = Range(subscriptions[c]) \cup Range(ts)
      /\ NoDup(s1[c])
      /\ \A s2 \in Subscribe(s1, c, ts) :
           Range(s2[c]) = Range(s1[c]) /\ NoDup(s2[c])

SubscribeUnionWitness ==
  \E c \in Registered :
    /\ Len(subscriptions[c]) = Cardinality(Topics)
    /\ NoDup(subscriptions[c])

\* C11: unsubscribe without a topic list leaves the connection with no
\* subscribed topic, whatever it had, and keeps its entry.
UnsubscribeAllEmpties ==
  \A c \in Conns :
    LET after == Unsubscribe(subscriptions, c, FALSE, <<>>)
    IN  /\ TopicsOf(after, c) = <<>>
        /\ DOMAIN after = Registered

UnsubscribeAllWitness ==
  \E c \in Registered :
    /\ Len(subscriptions[c]) >= 2
    /\ Unsubscribe(subscriptions, c, FALSE, <<>>)[c] = <<>>

\* C12: unsubscribe with a topic list removes the listed topics and nothing
\* else; listed topics that are not subscribed are ignored.
UnsubscribeRemovesListed ==
  \A c \in Registered : \A ts \in TopicLists :
    LET after == Unsubscribe(subscriptions, c, TRUE, ts)
    IN  /\ DOMAIN after = Registered
        /\ Range(after[c]) = Range(subscriptions[c]) \ Range(ts)
        /\ NoDup(after[c])

UnsubscribeListedWitness ==
  \E c \in Registered : \E ts \in TopicLists :
    /\ Range(ts) \cap Range(subscriptions[c]) # {}
    /\ Range(ts) \ Range(subscriptions[c]) # {}
    /\ Range(subscriptions[c]) \ Range(ts) # {}
    /\ Range(Unsubscribe(subscriptions, c, TRUE, ts)[c])
         = Range(subscriptions[c]) \ Range(ts)

\* C13: subscribe on a websocket without an entry changes nothing and
\* creates no entry.
SubscribeUnregisteredIsNoop ==
  \A c \in Conns \ Registered : \A ts \in TopicLists :
    Subscribe(subscriptions, c, ts) = {subscriptions}

SubscribeUnregisteredWitness ==
  \E c \in Conns \ Registered : \E d \in Registered :
    /\ subscriptions[d] # <<>>
    /\ \A s1 \in Subscribe(subscriptions, c, <<"STOCK:MSFT">>) : c \notin DOMAIN s1

\* C14: disconnect on a websocket that is not registered changes nothing, and
\* disconnecting twice leaves what disconnecting once leaves.
DisconnectIsIdempotent ==
  \A c \in Conns :
    LET once  == Disconnect(active_connections, subscriptions, c)
        twice == Disconnect(once.conns, once.subs, c)
    IN  /\ twice = once
        /\ c \notin Range(once.conns)
        /\ c \notin DOMAIN once.subs
        /\ (c \notin Live /\ c \notin Registered) =>
              once = [conns |-> active_connections, subs |-> subscriptions]

DisconnectTwiceWitness ==
  /\ Len(active_connections) = 1
  /\ \E c \in Conns \ Live :
       Disconnect(active_connections, subscriptions, c).conns = active_connections

\* how often the for loop yielded c in the current tick
Visits(c) == Cardinality({i \in 1..Len(visited) : visited[i] = c})

\* C15: when a tick has completed, every connection that was live for the
\* whole tick was visited exactly once, whatever was removed from the list
\* while a send was awaited.
RemovalNeverSkipsSibling ==
  gen_pc = "sleep" => \A c \in steady : Visits(c) = 1

\* C16: the connections in the live list are exactly those with a registry
\* entry, each listed once.
RegistryMatchesLiveList ==
  Live = Registered /\ NoDup(active_connections)

RegistryMatchesWitness ==
  /\ Live # {}
  /\ Torn # {}
  /\ \E c \in Live : subscriptions[c] # <<>>

\* C17: a payload is built from the whole subscription list as it stands in
\* the step that starts the send, and a subscribe or unsubscribe handled
\* while the send is awaited does not alter it.
PayloadFromOneView ==
  [][/\ SendStarts =>
          DOMAIN data_to_send'
            = Range(TopicsOf(subscriptions, cur')) \cap DOMAIN data_store'
     /\ (gen_pc = "send" /\ gen_pc' = "send" /\ ~SendStarts) =>
          (data_to_send' = data_to_send /\ cur' = cur)]_vars

PayloadKeepsOldView ==
  /\ gen_pc = "send"
  /\ cur \in Registered
  /\ Cardinality(DOMAIN data_to_send) = 2
  /\ Range(subscriptions[cur]) \cap DOMAIN data_store # DOMAIN data_to_send
  /\ Range(subscriptions[cur]) \cap DOMAIN data_to_send # {}

\* C18: the store is written only while no broadcast is in progress, so the
\* payload in flight always carries the store's values and all payloads of a
\* tick agree on every topic.
StoreStableDuringBroadcast ==
  /\ [][gen_pc = "send" => data_store' = data_store]_vars
  /\ [](gen_pc = "send" =>
          \A t \in DOMAIN data_to_send :
            t \in DOMAIN data_store /\ data_to_send[t] = data_store[t])

TwoPushesOneTick ==
  /\ gen_pc = "send"
  /\ Cardinality(pushed) = 2
  /\ \E t \in DOMAIN data_to_send : data_to_send[t] # DefaultPrice

\* C19: a connection whose handler has ended is in neither the live list
\* nor the registry.
HandlerOwnsRegistration ==
  \A c \in Conns :
    ws_pc[c] \in {"closed", "crashed"} => c \notin Live /\ c \notin Registered

\* C20: a step of one connection's handler (connect, subscribe, unsubscribe,
\* disconnect) leaves every other connection's entry as it was and does not
\* write the store.
SubscriptionsAreIsolated ==
  [][\A c \in Conns :
       ws_pc'[c] # ws_pc[c] =>
         /\ data_store' = data_store
         /\ \A d \in Conns \ {c} :
              /\ (d \in Registered) = (d \in DOMAIN subscriptions')
              /\ d \in Registered => subscriptions'[d] = subscriptions[d]]_vars

IsolationWitness ==
  \E c, d \in Registered :
    /\ Range(subscriptions[c]) = {"STOCK:MSFT"}
    /\ Range(subscriptions[d]) = {"STOCK:MSFT", "OTHER:X"}
    /\ DOMAIN data_store # {}

====
